---- MODULE Spec2Model ----
(***************************************************************************)
(* A model of Px (px/main.py): the per-process State object, the pooled    *)
(* TCP server (PoolMixIn / ThreadedTCPServer), the request handler         *)
(* (Proxy.handle_one_request / Proxy.do_curl), the passive resolver refresh*)
(* (reload_proxy) and the configuration pass (parse_config).               *)
(*                                                                         *)
(* Four specifications share the variables:                                *)
(*   Spec        one worker process serving connections; the resolver is   *)
(*               in MODE_CONFIG, where reload_proxy returns at once;       *)
(*   SpecReload  handler threads racing through reload_proxy;              *)
(*   SpecConfig  parse_config over INI, PX_* environment and CLI inputs;   *)
(*   SpecPool    run_pool in the supervisor and start_worker in its        *)
(*               children: binding, spawning and the socket hand-off.      *)
(***************************************************************************)
EXTENDS Integers, Sequences, FiniteSets, TLC

\* ------------------------------------------------------------------ bounds
Threads == 1          \* settings:threads of the modelled worker (pool max_workers)
MaxConns == 2         \* connections the clients open
Callers == 2          \* handler threads inside get_destination (SpecReload)
MaxTime == 4          \* seconds of wall clock the reload model follows
MaxSet == 3           \* options set in the INI file, the environment and the CLI together
MaxWorkers == 2       \* the largest settings:workers of the supervisor model

\* ------------------------------------------------------------ value universes
None == "None"
NoTime == 0 - 1                              \* None where a time is expected
Alive == 0 - 1                               \* exit status of a process that runs
DIRECT == "DIRECT"

IPs == {"127.0.0.1", "192.168.1.7", "10.0.0.5"}
HostAddrs == {"192.168.1.7"}                 \* socket.getaddrinfo(gethostname())
AllIPs == IPs

Commands == {"GET", "CONNECT"}
ErrCodes == {502, 504}                       \* curl.resp after a failed transfer

VARIABLES
    \* State (class State, per process)
    allow, hostonly, username, auth, wproxy, proxy_last_reload, proxyreload,
    state_lock,
    \* process environment
    platform, px_password,
    \* one ThreadedTCPServer of the worker
    conn, queue, h,
    \* time.time(), the threads inside reload_proxy, the times of the last two
    \* replacements of State.wproxy
    now, rt, prev_replace, last_replace,
    \* per handler thread, the resolver snapshots its request has read
    seen,
    \* parse_config: its inputs (px.ini, PX_* variables, CLI flags), its place,
    \* State.config and the State fields its callbacks set
    ini, env, flags, cpc, config, listen, location, socktimeout,
    \* what --save has written to px.ini
    saved,
    \* run_pool and start_worker: settings:workers, the multiprocessing start
    \* method, the supervisor's place, the sockets it has bound, whether it
    \* printed a failure, the child processes, whether its own serve loops
    \* run, and the exit status of the process once main is over
    workers, start_method, sup, mainsocks, printed, children, serving, exit_code,
    threads, query, in_test

server_vars == <<conn, queue, h>>
cfg_state == <<allow, hostonly, username, auth, proxyreload, platform, px_password>>
resolver_vars == <<wproxy, proxy_last_reload, state_lock>>
reload_vars == <<now, rt, prev_replace, last_replace, seen>>
config_vars == <<ini, env, flags, cpc, config, listen, location, socktimeout,
                 saved>>
pool_vars == <<workers, start_method, sup, mainsocks, printed, children, serving,
               exit_code, threads, query, in_test>>
state_vars == <<cfg_state, resolver_vars, reload_vars, config_vars, pool_vars>>
vars == <<state_vars, server_vars>>

Conns == 1..MaxConns
Pool == 1..Threads

InList(x, s) == \E i \in 1..Len(s) : s[i] = x

\* ------------------------------------------------------------- parse_config
Absent == "<absent>"

\* the option names of the model, of the 19 that parse_config knows
Keys == {"port", "log", "allow", "listen", "gateway", "hostonly", "socktimeout"}

IntKeys == {"port", "gateway", "hostonly", "log"}
FloatKeys == {"socktimeout"}

\* parse_config, lines 814-834
Default(k) ==
    CASE k = "port" -> "3128"
      [] k = "log" -> "0"
      [] k = "allow" -> "*.*.*.*"
      [] k = "listen" -> "127.0.0.1"
      [] k = "gateway" -> "0"
      [] k = "hostonly" -> "0"
      [] k = "socktimeout" -> "20.0"

\* what a source may say: an option and the value it gives it
Givens ==
    <<<<"port", "1000">>, <<"port", "2000">>, <<"port", "3000">>,
      <<"port", "0080">>, <<"port", "abc">>,
      <<"log", "4">>,
      <<"allow", "10.0.0.0/8">>, <<"allow", "0.0.0.0/0">>,
      <<"listen", "192.168.1.7">>, <<"listen", "10.0.0.5, 127.0.0.1">>,
      <<"gateway", "0">>, <<"gateway", "1">>,
      <<"hostonly", "0">>, <<"hostonly", "1">>,
      <<"socktimeout", "5">>, <<"socktimeout", "abc">>,
      <<"debug", "1">>>>

Sources == <<"ini", "env", "cli">>

\* --save has not run
NoFile == [k \in Keys |-> Absent]

IntStr_wrong(val) ==
    CASE val = "0080" -> "080"
      [] val = "080" -> "80"
      [] OTHER -> val

\* str(int(val)), or val itself after the ValueError (cfg_int_init, lines 612-617)
IntStr(val) ==
    CASE val = "0080" -> "80"
      [] OTHER -> val

\* str(float(val)), or val itself after the ValueError (cfg_float_init, lines 630-635)
FloatStr(val) ==
    CASE val = "5" -> "5.0"
      [] val = "20.0" -> "20.0"
      [] OTHER -> val

\* the value cfg_*_init starts from: the configured one unless overriding
\* (lines 605-610, 623-628, 641-646)
Start(cfg, k, default, override) ==
    IF ~override /\ cfg[k] # Absent THEN cfg[k] ELSE default

\* what cfg_init stores in State.config and hands to the callback (lines 851-863)
cfg_value(k, val) ==
    IF k \in IntKeys THEN IntStr(val)
    ELSE IF k \in FloatKeys THEN FloatStr(val)
    ELSE val

\* listen.split(",") with every part stripped
ListenParts(val) ==
    CASE val = "127.0.0.1" -> <<"127.0.0.1">>
      [] val = "192.168.1.7" -> <<"192.168.1.7">>
      [] val = "10.0.0.5, 127.0.0.1" -> <<"10.0.0.5", "127.0.0.1">>
      [] OTHER -> <<>>

RECURSIVE AppendNew(_, _)
\* set_listen, lines 532-536: a part is appended unless State.listen has it
AppendNew(lst, parts) ==
    IF parts = <<>> THEN lst
    ELSE AppendNew(IF InList(Head(parts), lst) THEN lst ELSE Append(lst, Head(parts)),
                   Tail(parts))

set_listen_wrong(lst, val) == lst \o ListenParts(val)

set_listen(lst, val) == AppendNew(lst, ListenParts(val))

\* LogLocation of a value given to set_debug; get_logfile knows 1..4
LogNumber(val) ==
    CASE val = "1" -> 1 [] val = "2" -> 2 [] val = "3" -> 3 [] val = "4" -> 4
      [] OTHER -> 0

\* set_debug, lines 579-592: only the first sink that exists is installed
set_debug(loc, val) == IF loc = 0 /\ LogNumber(val) # 0 THEN LogNumber(val) ELSE loc

\* One pass of cfg_init over the options that src names (every option, with
\* its default, for the first pass): State.config and the callbacks' fields.
Pass(cfg, src, override) ==
    [k \in Keys |->
        IF src[k] = Absent THEN cfg[k]
        ELSE cfg_value(k, Start(cfg, k, src[k], override))]

Defaults == [k \in Keys |-> Default(k)]

ConfigDone ==
    /\ ini = [k \in Keys |-> Absent]
    /\ env = [k \in Keys |-> Absent]
    /\ flags = [k \in Keys \cup {"debug"} |-> Absent]
    /\ cpc = "done"
    /\ config = Defaults
    /\ listen = <<"127.0.0.1">>
    /\ location = 0
    /\ socktimeout = "20.0"
    /\ saved = NoFile

\* A child process of run_pool.  st: none | started | parsed | serving;
\* listen: its own State.listen; pipe: the sockets sent to it and not yet
\* received; got: the sockets it received, in order.
NoChild == [st |-> "none", listen |-> <<>>, pipe |-> <<>>, got |-> <<>>]

\* run_pool has not been entered
\* test, lines 667-681: the query thread, before t.start(); early records
\* whether ec.perform() ran while listen[0] was not bound yet
NoQuery == [pc |-> "none", early |-> FALSE]

PoolIdle ==
    /\ workers = 1
    /\ start_method = "fork"
    /\ sup = "none"
    /\ mainsocks = <<>>
    /\ printed = FALSE
    /\ children = [i \in 1..MaxWorkers |-> NoChild]
    /\ serving = FALSE
    /\ exit_code = Alive
    /\ threads = Threads
    /\ query = NoQuery
    /\ in_test = FALSE

\* ---------------------------------------------------------------- admission
\* The addresses an allow rule admits (State.allow is what set_allow made of it).
RuleIps(rule) ==
    CASE rule = "*.*.*.*" -> AllIPs
      [] rule = "0.0.0.0/0" -> AllIPs
      [] rule = "10.0.0.0/8" -> {"10.0.0.5"}
      [] rule = "192.168.1.0/24" -> {"192.168.1.7"}
      [] OTHER -> {}

get_host_ips == <<"127.0.0.1">> \o <<"192.168.1.7">>

verify_request_wrong(ip) ==
    \/ ip \in RuleIps(allow)
    \/ InList(ip, get_host_ips)

verify_request(ip) ==
    \/ ip \in RuleIps(allow)
    \/ hostonly /\ InList(ip, get_host_ips)

\* ------------------------------------------------------------------- handler
\* A pool thread and the Proxy instance it runs.  pc: idle | read | do |
\* select | done.  ev is the request's ordered record of driver calls and
\* client writes; status the code of the response the handler itself wrote.
\* client_close: the request's headers asked for "Connection: close";
\* upstream_close: the upstream's response headers, which the bridge relays,
\* carried "Connection: close"; sockerr: the request ended in the
\* socket.error handler; route: the first entry of the list the resolver
\* returned for the request.
NoHandler ==
    [conn |-> 0, pc |-> "idle", command |-> None, close_connection |-> FALSE,
     curl |-> None, proxy_servers |-> <<>>, ipport |-> None, proxy_ok |-> FALSE,
     key |-> "", ev |-> <<>>, entered |-> FALSE, released |-> FALSE,
     failed |-> {}, resp |-> 0, status |-> 0,
     client_close |-> FALSE, upstream_close |-> FALSE, sockerr |-> FALSE,
     route |-> None]

Log(hr, e) == [hr EXCEPT !.ev = Append(@, e)]

Has(hr, e) == InList(e, hr.ev)

\* What reaches the client socket.
WriteEvents ==
    {"send_error", "200 Connection established", "Proxy-Agent", "end_headers",
     "response", "tunnel"}

RECURSIVE Writes(_)
Writes(ev) ==
    IF ev = <<>> THEN 0
    ELSE (IF Head(ev) \in WriteEvents THEN 1 ELSE 0) + Writes(Tail(ev))

\* BaseHTTPRequestHandler.send_error: status line, "Connection: close" (which
\* sets close_connection) and the body.
send_error(hr, code) ==
    [Log(hr, "send_error") EXCEPT !.status = code, !.close_connection = TRUE]

\* Wproxy.find_proxy_for_url: [DIRECT] for a noproxy host, else the configured list.
find_proxy_for_url(noproxy_match) ==
    IF noproxy_match THEN <<DIRECT>> ELSE wproxy.servers

get_destination_wrong(hr, servers) ==
    [hr EXCEPT !.route = servers[1], !.ipport = None, !.proxy_servers = servers]

\* Proxy.get_destination (reload_proxy has returned)
get_destination(hr, servers) ==
    IF servers[1] = DIRECT
    THEN [hr EXCEPT !.route = servers[1], !.ipport = "netloc"]
    ELSE [hr EXCEPT !.route = servers[1], !.ipport = None,
                    !.proxy_servers = servers]

\* do_curl, lines 208-211: a new easy handle, or the connection's handle reset
curl_prepare(hr) ==
    [hr EXCEPT !.curl = "easy", !.entered = TRUE, !.released = FALSE,
               !.ev = <<>>, !.status = 0, !.failed = {}, !.resp = 0, !.key = "",
               !.proxy_ok = FALSE]

\* do_curl, lines 251-265
configure_transfer(hr) ==
    LET h1 == IF hr.command # "CONNECT" THEN Log(hr, "bridge") ELSE hr
    IN  [Log(Log(h1, "set_headers"), "set_transfer_decoding False")
            EXCEPT !.pc = "do"]

proxy_rejected_wrong(hr) == configure_transfer(send_error(hr, 401))

\* do_curl, lines 224-227
proxy_rejected(hr) == [send_error(hr, 401) EXCEPT !.pc = "done"]

set_auth(hr, user) == [Log(hr, "set_auth") EXCEPT !.key = user]

credentials_wrong(hr) ==
    IF username # ""
    THEN set_auth(Log(hr, IF px_password THEN "PX_PASSWORD" ELSE "keyring"),
                  username)
    ELSE set_auth(hr, ":")

\* do_curl, lines 229-247: pc = "done" when the handler returned with 501
credentials(hr) ==
    IF username # ""
    THEN set_auth(Log(hr, IF px_password THEN "PX_PASSWORD" ELSE "keyring"),
                  username)
    ELSE IF platform = "win32"
         THEN set_auth(hr, ":")
         ELSE [send_error(hr, 501) EXCEPT !.pc = "done"]

\* do_curl, lines 207-265: everything before State.mcurl.do
do_curl_setup(hr, noproxy_match, ret) ==
    LET h1 == get_destination(curl_prepare(hr), find_proxy_for_url(noproxy_match))
    IN  IF h1.ipport = None
        THEN LET h2 == [Log(h1, "set_proxy") EXCEPT !.proxy_ok = ret]
             IN  IF ~ret
                 THEN proxy_rejected(h2)
                 ELSE LET h3 == credentials(h2)
                      IN  IF h3.pc = "done" THEN h3 ELSE configure_transfer(h3)
        ELSE configure_transfer(h1)

\* The one upstream the easy handle is configured for (proxy_servers[0], line 217)
Upstream(hr) == IF hr.ipport = None THEN hr.proxy_servers[1] ELSE DIRECT

\* State.mcurl.remove / State.mcurl.stop
remove(hr) == [Log(hr, "remove") EXCEPT !.released = TRUE]
stop(hr) == [Log(hr, "stop") EXCEPT !.released = TRUE]

\* State.mcurl.do returning False: the driver leaves its code in curl.resp
do(hr, resp) ==
    [Log(hr, "do") EXCEPT !.failed = @ \cup {Upstream(hr)}, !.resp = resp]

\* do_curl, lines 267-269 and 278
do_failed(hr, resp) ==
    LET h1 == do(hr, resp)
    IN  [remove(send_error(h1, h1.resp)) EXCEPT !.pc = "done"]

connect_established_wrong(hr) == [Log(hr, "do") EXCEPT !.pc = "select"]

\* do_curl, lines 270-274
connect_established(hr) ==
    [Log(Log(Log(Log(hr, "do"), "200 Connection established"), "Proxy-Agent"),
         "end_headers") EXCEPT !.status = 200, !.pc = "select"]

\* do_curl, lines 275-278
tunnel(hr) ==
    [remove(Log(Log(hr, "select"), "tunnel"))
        EXCEPT !.close_connection = TRUE, !.pc = "done"]

\* do_curl, line 267 succeeding for a bridged request, then line 278: the
\* driver has written the upstream's response, headers included, to wfile;
\* do_curl looks at nothing but the boolean that do returned.
bridged(hr, upclose) ==
    [remove(Log(Log(hr, "do"), "response"))
        EXCEPT !.upstream_close = upclose, !.pc = "done"]

\* BaseHTTPRequestHandler.parse_request, called at line 187 through the base
\* class: the command, and close_connection from the request's Connection header
parse_request(hr, cmd, cclose) ==
    [hr EXCEPT !.command = cmd, !.close_connection = cclose,
               !.client_close = cclose]

socket_error_wrong(hr) ==
    LET h1 == [hr EXCEPT !.sockerr = TRUE, !.pc = "done"]
    IN  IF h1.curl # None THEN [stop(h1) EXCEPT !.curl = None] ELSE h1

\* handle_one_request, lines 188-195
socket_error(hr) ==
    LET h1 == [hr EXCEPT !.close_connection = TRUE, !.sockerr = TRUE,
                         !.pc = "done"]
    IN  IF h1.curl # None THEN [stop(h1) EXCEPT !.curl = None] ELSE h1

\* ------------------------------------------------------------ server actions
\* A client connection.  st: new | queued | handling | closed.  ip: the peer
\* address that verify_request saw, kept until a pool thread takes the
\* connection or, for a connection turned away, for good.  wrote: some byte
\* was written to the client; tasks: pool tasks started for it; inflight: its
\* requests inside do_curl.
NewConn == [st |-> "new", ip |-> None, admitted |-> FALSE, wrote |-> FALSE,
            tasks |-> 0, inflight |-> 0]

process_request_twice(q, c) == Append(Append(q, c), c)

process_request_bounded(q, c) == IF Len(q) < Threads THEN Append(q, c) ELSE q

\* PoolMixIn.process_request: pool.submit puts the work item on the executor's queue
process_request(q, c) == Append(q, c)

\* BaseServer._handle_request_noblock as serve_forever runs it: get_request,
\* verify_request, then process_request or shutdown_request.
Accept ==
    \E c \in Conns, ip \in IPs :
        /\ conn[c].st = "new"
        /\ \A d \in Conns : d < c => conn[d].st # "new"
        /\ IF verify_request(ip)
           THEN /\ conn' = [conn EXCEPT ![c].st = "queued", ![c].ip = ip,
                                        ![c].admitted = TRUE]
                /\ queue' = process_request(queue, c)
           ELSE /\ conn' = [conn EXCEPT ![c].st = "closed", ![c].ip = ip]
                /\ queue' = queue
        /\ UNCHANGED <<h, state_vars>>

StartTask_wrong(t) ==
    /\ queue # <<>>
    /\ LET c == Head(queue)
       IN  /\ h' = [h EXCEPT ![t] = [NoHandler EXCEPT !.conn = c, !.pc = "read"]]
           /\ conn' = [conn EXCEPT ![c].st = "handling", ![c].tasks = @ + 1,
                                   ![c].ip = None]
    /\ queue' = Tail(queue)
    /\ UNCHANGED state_vars

\* A pool thread takes the oldest work item: process_request_thread builds the
\* Proxy instance, whose handle() loops over handle_one_request.
StartTask(t) ==
    /\ h[t].pc = "idle"
    /\ \A u \in Pool : u < t => h[u].pc # "idle"
    /\ queue # <<>>
    /\ LET c == Head(queue)
       IN  /\ h' = [h EXCEPT ![t] = [NoHandler EXCEPT !.conn = c, !.pc = "read"]]
           /\ conn' = [conn EXCEPT ![c].st = "handling", ![c].tasks = @ + 1,
                                   ![c].ip = None]
    /\ queue' = Tail(queue)
    /\ UNCHANGED state_vars

InDoCurl(hr) == IF hr.pc \in {"do", "select"} THEN 1 ELSE 0

\* handle_one_request parses a request and dispatches to do_<command>, all of
\* which are do_curl; the step runs do_curl up to State.mcurl.do.
BeginRequest(t) ==
    /\ h[t].pc = "read"
    /\ \E cmd \in Commands, noproxy_match \in BOOLEAN, ret \in BOOLEAN,
          cclose \in BOOLEAN :
          LET c == h[t].conn
              h0 == parse_request(h[t], cmd, cclose)
              h1 == do_curl_setup(h0, noproxy_match, ret)
          IN  /\ h' = [h EXCEPT ![t] = h1]
              /\ conn' = [conn EXCEPT ![c].inflight = @ + InDoCurl(h1),
                                      ![c].wrote = @ \/ Writes(h1.ev) > 0]
    /\ UNCHANGED <<queue, state_vars>>

\* State.mcurl.do and what do_curl does with its result
Perform(t) ==
    /\ h[t].pc = "do"
    /\ \E ok \in BOOLEAN, resp \in ErrCodes, upclose \in BOOLEAN :
          LET c == h[t].conn
              h1 == IF ~ok THEN do_failed(h[t], resp)
                    ELSE IF h[t].command = "CONNECT" THEN connect_established(h[t])
                    ELSE bridged(h[t], upclose)
          IN  /\ h' = [h EXCEPT ![t] = h1]
              /\ conn' = [conn EXCEPT ![c].inflight = @ - 1 + InDoCurl(h1),
                                      ![c].wrote = @ \/ Writes(h1.ev) > 0]
    /\ UNCHANGED <<queue, state_vars>>

\* State.mcurl.select runs the tunnel until it ends
Select(t) ==
    /\ h[t].pc = "select"
    /\ LET c == h[t].conn
           h1 == tunnel(h[t])
       IN  /\ h' = [h EXCEPT ![t] = h1]
           /\ conn' = [conn EXCEPT ![c].inflight = @ - 1,
                                   ![c].wrote = @ \/ Writes(h1.ev) > 0]
    /\ UNCHANGED <<queue, state_vars>>

\* socket.error raised while reading the request, in mcurl.do or in the tunnel
SocketError(t) ==
    /\ h[t].pc \in {"read", "do", "select"}
    /\ LET c == h[t].conn
       IN  /\ h' = [h EXCEPT ![t] = socket_error(h[t])]
           /\ conn' = [conn EXCEPT ![c].inflight = @ - InDoCurl(h[t])]
    /\ UNCHANGED <<queue, state_vars>>

\* The Proxy instance between two requests: curl and proxy_servers stay, the
\* finished request's record is dropped.
next_request(hr) ==
    [NoHandler EXCEPT !.conn = hr.conn, !.pc = "read", !.curl = hr.curl,
                      !.proxy_servers = hr.proxy_servers]

\* handle(): the connection is over, the pool thread is free again
Finish(t) ==
    /\ h' = [h EXCEPT ![t] = NoHandler]
    /\ conn' = [conn EXCEPT ![h[t].conn].st = "closed", ![h[t].conn].ip = None]

\* The client closed its side: handle_one_request reads no request line,
\* sets close_connection and returns.
ClientEOF(t) ==
    /\ h[t].pc = "read"
    /\ Finish(t)
    /\ UNCHANGED <<queue, state_vars>>

\* handle(): "while not self.close_connection: self.handle_one_request()"
EndRequest(t) ==
    /\ h[t].pc = "done"
    /\ IF h[t].close_connection
       THEN Finish(t)
       ELSE /\ h' = [h EXCEPT ![t] = next_request(h[t])]
            /\ conn' = conn
    /\ UNCHANGED <<queue, state_vars>>

\* allow, hostonly, username, PX_PASSWORD set, sys.platform
Deployments ==
    {<<"*.*.*.*", FALSE, "", FALSE, "linux">>,
     <<"10.0.0.0/8", FALSE, "", FALSE, "win32">>,
     <<"", TRUE, "DOMAIN\\u", FALSE, "linux">>,
     <<"10.0.0.0/8", TRUE, "DOMAIN\\u", FALSE, "win32">>,
     <<"*.*.*.*", FALSE, "DOMAIN\\u", TRUE, "linux">>,
     <<"", TRUE, "DOMAIN\\u", TRUE, "win32">>}

\* The State of a started worker (after parse_config), resolver in MODE_CONFIG.
InitState ==
    /\ \E d \in Deployments :
          /\ allow = d[1] /\ hostonly = d[2]
          /\ username = d[3] /\ px_password = d[4] /\ platform = d[5]
    /\ auth = "ANY"
    /\ wproxy = [mode |-> "MODE_CONFIG", servers |-> <<"a:1", "b:2">>, gen |-> 0,
                 prev |-> None]
    /\ proxy_last_reload = NoTime
    /\ proxyreload = 60
    /\ state_lock = 0

\* The snapshots of State.wproxy one request has read, by their gen: for the
\* mode check of reload_proxy (line 479) and for find_proxy_for_url
\* (line 306); own: the request replaced the resolver itself.  NoSnap: not
\* read.
NoSnap == 0 - 1
NoSeen == [mode |-> NoSnap, list |-> NoSnap, own |-> FALSE]

ReloadIdle ==
    /\ now = 0
    /\ rt = [r \in 1..Callers |-> "out"]
    /\ seen = [r \in 1..Callers |-> NoSeen]
    /\ prev_replace = NoTime
    /\ last_replace = NoTime

Init ==
    /\ InitState
    /\ ReloadIdle
    /\ ConfigDone
    /\ PoolIdle
    /\ conn = [c \in Conns |-> NewConn]
    /\ queue = <<>>
    /\ h = [t \in Pool |-> NoHandler]

Next ==
    \/ Accept
    \/ \E t \in Pool : StartTask(t)
    \/ \E t \in Pool : BeginRequest(t)
    \/ \E t \in Pool : Perform(t)
    \/ \E t \in Pool : Select(t)
    \/ \E t \in Pool : SocketError(t)
    \/ \E t \in Pool : ClientEOF(t)
    \/ \E t \in Pool : EndRequest(t)

Spec == Init /\ [][Next]_vars

\* ThreadPoolExecutor: an idle pool thread does take a work item that waits
SpecLive == Spec /\ WF_vars(\E t \in Pool : StartTask(t))

\* ------------------------------------------------------------ reload_proxy
\* What Wproxy() finds in the system settings.
SystemModes == {"MODE_NONE", "MODE_PAC"}

\* wproxy.Wproxy(noproxy = State.noproxy): a new resolver from the system
\* settings; prev is the mode of the resolver it takes the place of
Wproxy(mode, old) ==
    [mode |-> mode,
     servers |-> IF mode = "MODE_NONE" THEN <<DIRECT>> ELSE <<"a:1", "b:2">>,
     gen |-> (old.gen + 1) % 2,
     prev |-> old.mode]

\* The resolvers parse_config builds from proxy:server and proxy:pac
\* (lines 929-933)
ConfiguredModes == {"MODE_CONFIG", "MODE_CONFIG_PAC"}

ConfiguredMode_wrong == wproxy.mode = "MODE_CONFIG"

\* reload_proxy, line 479
ConfiguredMode == wproxy.mode \in {"MODE_CONFIG", "MODE_CONFIG_PAC"}

lock_ignored(r) == TRUE

\* State.state_lock.acquire() can return (line 484)
lock_free(r) == state_lock = 0

\* reload_proxy, lines 487-488
Fresh ==
    proxy_last_reload # NoTime /\ now - proxy_last_reload < proxyreload

\* get_destination calls reload_proxy, which returns at once for a resolver
\* configured in Px (line 479-480)
ReloadCall(r) ==
    /\ rt[r] = "out"
    /\ rt' = [rt EXCEPT ![r] = IF ConfiguredMode THEN "find" ELSE "acquire"]
    /\ seen' = [seen EXCEPT ![r].mode = wproxy.gen]
    /\ UNCHANGED <<now, prev_replace, last_replace, resolver_vars, cfg_state,
                   config_vars, pool_vars,
                   server_vars>>

\* line 484
ReloadAcquire(r) ==
    /\ rt[r] = "acquire"
    /\ lock_free(r)
    /\ state_lock' = r
    /\ rt' = [rt EXCEPT ![r] = "locked"]
    /\ UNCHANGED <<now, seen, prev_replace, last_replace, wproxy, proxy_last_reload,
                   cfg_state, config_vars, pool_vars,
                   server_vars>>

\* lines 487-490, and the finally clause: a fresh resolver is kept
ReloadSkip(r) ==
    /\ rt[r] = "locked"
    /\ Fresh
    /\ state_lock' = 0
    /\ rt' = [rt EXCEPT ![r] = "find"]
    /\ UNCHANGED <<now, seen, prev_replace, last_replace, wproxy, proxy_last_reload,
                   cfg_state, config_vars, pool_vars,
                   server_vars>>

\* line 493: the resolver is replaced
ReloadReplace(r) ==
    /\ rt[r] = "locked"
    /\ ~Fresh
    /\ \E m \in SystemModes : wproxy' = Wproxy(m, wproxy)
    /\ prev_replace' = last_replace
    /\ last_replace' = now
    /\ rt' = [rt EXCEPT ![r] = "stamp"]
    /\ seen' = [seen EXCEPT ![r].own = TRUE]
    /\ UNCHANGED <<now, proxy_last_reload, state_lock, cfg_state, config_vars, pool_vars,
                   server_vars>>

\* lines 495-498: the time of the reload is recorded, the lock released
ReloadStamp(r) ==
    /\ rt[r] = "stamp"
    /\ proxy_last_reload' = now
    /\ state_lock' = 0
    /\ rt' = [rt EXCEPT ![r] = "find"]
    /\ UNCHANGED <<now, seen, prev_replace, last_replace, wproxy, cfg_state, config_vars, pool_vars,
                   server_vars>>

reload_frame == <<now, prev_replace, last_replace, resolver_vars, cfg_state,
                  config_vars, pool_vars, server_vars>>

\* get_destination, lines 306-313: State.wproxy is read again for
\* find_proxy_for_url; a DIRECT answer ends the part of the request that
\* looks at the resolver
FindProxy(r) ==
    /\ rt[r] = "find"
    /\ IF wproxy.servers[1] = DIRECT
       THEN /\ rt' = [rt EXCEPT ![r] = "out"]
            /\ seen' = [seen EXCEPT ![r] = NoSeen]
       ELSE /\ rt' = [rt EXCEPT ![r] = "noproxy"]
            /\ seen' = [seen EXCEPT ![r].list = wproxy.gen]
    /\ UNCHANGED reload_frame

\* do_curl, lines 222-223: State.wproxy is read a third time, for the
\* noproxy_hosts that set_proxy is given; after that the request no longer
\* looks at the resolver
ReadNoproxy(r) ==
    /\ rt[r] = "noproxy"
    /\ rt' = [rt EXCEPT ![r] = "out"]
    /\ seen' = [seen EXCEPT ![r] = NoSeen]
    /\ UNCHANGED reload_frame

\* a second of wall clock passes
Tick ==
    /\ now < MaxTime
    /\ now' = now + 1
    /\ UNCHANGED <<rt, seen, prev_replace, last_replace, resolver_vars, cfg_state,
                   config_vars, pool_vars,
                   server_vars>>

\* parse_config, lines 928-936: a resolver configured in Px, or one found in the
\* system settings together with the time it was loaded
InitReload ==
    /\ allow = "*.*.*.*" /\ hostonly = FALSE /\ username = "" /\ auth = "ANY"
    /\ px_password = FALSE /\ platform = "linux"
    /\ proxyreload \in {1, 2}
    /\ state_lock = 0
    /\ ReloadIdle
    /\ ConfigDone
    /\ PoolIdle
    /\ \/ /\ \E m \in ConfiguredModes :
                wproxy = [mode |-> m,
                          servers |-> IF m = "MODE_CONFIG" THEN <<"a:1", "b:2">>
                                      ELSE <<"pac">>,
                          gen |-> 0, prev |-> None]
          /\ proxy_last_reload = NoTime
       \/ /\ \E m \in SystemModes :
                wproxy = [mode |-> m,
                          servers |-> IF m = "MODE_NONE" THEN <<DIRECT>>
                                      ELSE <<"a:1", "b:2">>,
                          gen |-> 0, prev |-> None]
          /\ proxy_last_reload = now
    /\ conn = [c \in Conns |-> NewConn]
    /\ queue = <<>>
    /\ h = [t \in Pool |-> NoHandler]

NextReload ==
    \/ Tick
    \/ \E r \in 1..Callers : ReloadCall(r)
    \/ \E r \in 1..Callers : ReloadAcquire(r)
    \/ \E r \in 1..Callers : ReloadSkip(r)
    \/ \E r \in 1..Callers : ReloadReplace(r)
    \/ \E r \in 1..Callers : ReloadStamp(r)
    \/ \E r \in 1..Callers : FindProxy(r)
    \/ \E r \in 1..Callers : ReadNoproxy(r)

SpecReload == InitReload /\ [][NextReload]_vars

\* ------------------------------------------------ parse_config, its steps
\* The fields the callbacks of one pass set: set_listen, set_allow, set_debug,
\* set_socktimeout are called for the options src names, with the stored value.
ApplyPass(src, override) ==
    LET cfg == Pass(config, src, override)
    IN  /\ config' = cfg
        /\ listen' = IF src["listen"] = Absent THEN listen
                     ELSE set_listen(listen, cfg["listen"])
        /\ allow' = IF src["allow"] = Absent THEN allow ELSE cfg["allow"]
        /\ location' = IF src["log"] = Absent THEN location
                       ELSE set_debug(location, cfg["log"])
        /\ socktimeout' = IF src["socktimeout"] = Absent THEN socktimeout
                          ELSE cfg["socktimeout"]

cfg_frame == <<username, auth, proxyreload, platform, px_password, resolver_vars,
               reload_vars, server_vars, pool_vars, ini, env, flags, saved>>

LocationStr(loc) ==
    CASE loc = 1 -> "1" [] loc = 2 -> "2" [] loc = 3 -> "3" [] loc = 4 -> "4"
      [] OTHER -> "0"

\* px.ini as State.config.read finds it (line 795): the file the run was
\* given, or the one an earlier run with --save has written over it
File == IF saved = NoFile THEN ini ELSE saved

\* parse_config, lines 743-811: --debug installs its sink, px.ini is read, and
\* settings:log is set from State.location
CfgLoad ==
    /\ cpc = "start"
    /\ LET loc == IF flags["debug"] # Absent THEN 1 ELSE location
       IN  /\ location' = loc
           /\ config' = [File EXCEPT !["log"] = IntStr(LocationStr(loc))]
    /\ cpc' = "defaults"
    /\ UNCHANGED <<listen, allow, hostonly, socktimeout, cfg_frame>>

\* lines 866-867: every option not in px.ini gets its default
CfgDefaults ==
    /\ cpc = "defaults"
    /\ ApplyPass(Defaults, FALSE)
    /\ cpc' = "env"
    /\ UNCHANGED <<hostonly, cfg_frame>>

\* lines 870-871: PX_* variables override
CfgEnv ==
    /\ cpc = "env"
    /\ ApplyPass(env, TRUE)
    /\ cpc' = "cli"
    /\ UNCHANGED <<hostonly, cfg_frame>>

\* lines 874-875: CLI flags override
CfgCli ==
    /\ cpc = "cli"
    /\ ApplyPass([k \in Keys |-> flags[k]], TRUE)
    /\ cpc' = "deps"
    /\ UNCHANGED <<hostonly, cfg_frame>>

purge_allow_wrong(gateway, allowcfg) == gateway \in {"0", "1"}

\* line 900: host-only mode drops the allow rules unless gateway mode has
\* rules of its own
purge_allow(gateway, allowcfg) ==
    gateway = "0" \/ (gateway = "1" /\ allowcfg \in {"*.*.*.*", "0.0.0.0/0"})

\* lines 880-903: gateway and hostonly
CfgDeps ==
    /\ cpc = "deps"
    /\ LET gateway == config["gateway"]
           honly == config["hostonly"] = "1"
           purge == honly /\ purge_allow(gateway, config["allow"])
       IN  /\ listen' = IF gateway = "1" \/ honly THEN <<"">> ELSE listen
           /\ hostonly' = (hostonly \/ honly)
           /\ config' = IF purge THEN [config EXCEPT !["allow"] = ""] ELSE config
           /\ allow' = IF purge THEN "" ELSE allow
    /\ cpc' = "done"
    /\ UNCHANGED <<location, socktimeout, cfg_frame>>

\* float(val) returns, so that socket.setdefaulttimeout (line 599) goes through
IsFloat(val) == val \in {"5", "5.0", "20.0"}

\* lines 920-921 with --save as the only flag and no PX_* variable, then the
\* next start of Px: save writes State.config to px.ini and exits, and the
\* new process begins from the class body of State with that file.
CfgSave ==
    /\ cpc = "done"
    /\ saved = NoFile
    /\ \A k \in Keys : env[k] = Absent /\ flags[k] = Absent
    /\ flags["debug"] = Absent
    /\ IsFloat(config["socktimeout"])
    /\ saved' = config
    /\ cpc' = "start"
    /\ config' = [k \in Keys |-> Absent]
    /\ listen' = <<>>
    /\ location' = 0
    /\ socktimeout' = "20.0"
    /\ allow' = "*.*.*.*"
    /\ hostonly' = FALSE
    /\ UNCHANGED <<username, auth, proxyreload, platform, px_password, resolver_vars,
                   reload_vars, server_vars, pool_vars, ini, env, flags>>

\* the settings an input can hold, numbered: source, option, value
NSettings == Len(Sources) * Len(Givens)
SettingSource(e) == Sources[((e - 1) \div Len(Givens)) + 1]
SettingKey(e) == Givens[((e - 1) % Len(Givens)) + 1][1]
SettingValue(e) == Givens[((e - 1) % Len(Givens)) + 1][2]

\* --debug is a flag of the command line only
Possible(e) == SettingKey(e) = "debug" => SettingSource(e) = "cli"

\* the options one source sets, among the chosen settings
Source(f, src, keys) ==
    [k \in keys |->
        IF \E i \in DOMAIN f : f[i] # 0 /\ SettingSource(f[i]) = src /\ SettingKey(f[i]) = k
        THEN SettingValue(f[CHOOSE i \in DOMAIN f :
                 f[i] # 0 /\ SettingSource(f[i]) = src /\ SettingKey(f[i]) = k])
        ELSE Absent]

\* at most MaxSet settings, no option set twice by one source
WellFormed(f) ==
    /\ \A i \in DOMAIN f : i > 1 => (f[i] = 0 \/ (f[i - 1] # 0 /\ f[i - 1] < f[i]))
    /\ \A i \in DOMAIN f : f[i] # 0 => Possible(f[i])
    /\ \A i \in DOMAIN f : (i > 1 /\ f[i] # 0) =>
          ~(SettingSource(f[i]) = SettingSource(f[i - 1])
              /\ SettingKey(f[i]) = SettingKey(f[i - 1]))

\* State as the class body leaves it (lines 75-108), before parse_config
InitConfig ==
    /\ \E f \in [1..MaxSet -> 0..NSettings] :
          /\ WellFormed(f)
          /\ ini = Source(f, "ini", Keys)
          /\ env = Source(f, "env", Keys)
          /\ flags = Source(f, "cli", Keys \cup {"debug"})
    /\ cpc = "start"
    /\ config = [k \in Keys |-> Absent]
    /\ listen = <<>>
    /\ location = 0
    /\ socktimeout = "20.0"
    /\ saved = NoFile
    /\ allow = "*.*.*.*" /\ hostonly = FALSE /\ username = "" /\ auth = "ANY"
    /\ px_password = FALSE /\ platform = "linux"
    /\ proxyreload = 60
    /\ state_lock = 0
    /\ wproxy = [mode |-> None, servers |-> <<>>, gen |-> 0, prev |-> None]
    /\ proxy_last_reload = NoTime
    /\ ReloadIdle
    /\ PoolIdle
    /\ conn = [c \in Conns |-> NewConn]
    /\ queue = <<>>
    /\ h = [t \in Pool |-> NoHandler]

NextConfig ==
    \/ CfgLoad
    \/ CfgDefaults
    \/ CfgEnv
    \/ CfgCli
    \/ CfgDeps
    \/ CfgSave

SpecConfig == InitConfig /\ [][NextConfig]_vars

\* ------------------------------------------------- run_pool, start_worker
\* parse_config as one function of its inputs and of the State.listen it
\* starts from: State.config and State.listen when it returns.
parse_config(lst0) ==
    LET cli == [k \in Keys |-> flags[k]]
        loc == IF flags["debug"] # Absent THEN 1 ELSE 0
        c0 == [ini EXCEPT !["log"] = IntStr(LocationStr(loc))]
        c1 == Pass(c0, Defaults, FALSE)
        l1 == set_listen(lst0, c1["listen"])
        c2 == Pass(c1, env, TRUE)
        l2 == IF env["listen"] = Absent THEN l1 ELSE set_listen(l1, c2["listen"])
        c3 == Pass(c2, cli, TRUE)
        l3 == IF cli["listen"] = Absent THEN l2 ELSE set_listen(l2, c3["listen"])
        honly == c3["hostonly"] = "1"
        purge == honly /\ purge_allow(c3["gateway"], c3["allow"])
    IN  [config |-> IF purge THEN [c3 EXCEPT !["allow"] = ""] ELSE c3,
         listen |-> IF c3["gateway"] = "1" \/ honly THEN <<"">> ELSE l3]

\* sys.platform and the start method multiprocessing uses on it: a forked
\* child starts from a copy of the parent's State, a spawned one from the
\* class body.
Platforms ==
    {<<"linux", "fork">>, <<"linux", "spawn">>, <<"win32", "spawn">>,
     <<"darwin", "spawn">>, <<"freebsd", "fork">>}

\* hasattr(socket, "fromshare")
fromshare == platform = "win32"

NChildren_wrong == IF platform # "darwin" THEN workers ELSE 0

\* run_pool, lines 437-446: the children the supervisor starts
NChildren ==
    IF platform # "darwin" /\ (platform = "linux" \/ fromshare)
    THEN IF workers > 1 THEN workers - 1 ELSE 0
    ELSE 0

Started == {i \in DOMAIN children : children[i].st # "none"}

pool_frame == <<cfg_state, resolver_vars, reload_vars, config_vars, server_vars,
                workers, start_method, threads, query>>

\* the bind loop is over: start the children, or go on to the serve loops
after_bind == IF NChildren > 0 THEN "spawn" ELSE "start"

\* lines 421-435, one turn of the loop: ThreadedTCPServer binds the next listen
\* address, or raises OSError, which run_pool prints before it returns to
\* main, which returns too: the process ends with status 0. When the failed
\* run_pool was the one test called (line 695), test and parse_config return
\* (lines 942-945) and main calls run_pool once more (lines 1043-1046), with
\* the servers of the first call dropped.
Bind ==
    /\ sup = "bind"
    /\ Len(mainsocks) < Len(listen)
    /\ \E ok \in BOOLEAN :
          IF ok
          THEN /\ mainsocks' = Append(mainsocks, listen[Len(mainsocks) + 1])
               /\ sup' = IF Len(mainsocks') = Len(listen) THEN after_bind ELSE "bind"
               /\ UNCHANGED <<printed, exit_code, in_test>>
          ELSE /\ printed' = TRUE
               /\ IF in_test
                  THEN /\ in_test' = FALSE
                       /\ sup' = "bind"
                       /\ mainsocks' = <<>>
                       /\ UNCHANGED exit_code
                  ELSE /\ sup' = "returned"
                       /\ exit_code' = 0
                       /\ UNCHANGED <<mainsocks, in_test>>
    /\ UNCHANGED <<children, serving, pool_frame>>

\* lines 447-452: the next child process is started
Spawn ==
    /\ sup = "spawn"
    /\ LET i == Cardinality(Started) + 1
       IN  /\ children' = [children EXCEPT ![i].st = "started",
                 ![i].listen = IF start_method = "fork" THEN listen ELSE <<>>]
    /\ sup' = "send"
    /\ UNCHANGED <<mainsocks, printed, serving, exit_code, in_test, pool_frame>>

\* lines 453-460: the next socket of mainsocks goes into the newest child's
\* pipe; after the last one the loop turns to the next child, or ends
Send ==
    /\ sup = "send"
    /\ LET i == Cardinality(Started)
           n == Len(children[i].pipe) + Len(children[i].got)
       IN  /\ children' = [children EXCEPT ![i].pipe = Append(@, mainsocks[n + 1])]
           /\ sup' = IF n + 1 < Len(mainsocks) THEN "send"
                     ELSE IF i < NChildren THEN "spawn" ELSE "start"
    /\ UNCHANGED <<mainsocks, printed, serving, exit_code, in_test, pool_frame>>

\* line 462: start_httpds runs the supervisor's own serve loops
StartHttpds ==
    /\ sup = "start"
    /\ sup' = "serving"
    /\ serving' = TRUE
    /\ UNCHANGED <<mainsocks, printed, children, exit_code, in_test, pool_frame>>

\* start_worker, line 394: the child's own parse_config
ChildParse(i) ==
    /\ children[i].st = "started"
    /\ children' = [children EXCEPT ![i].st = "parsed",
                       ![i].listen = parse_config(children[i].listen).listen]
    /\ UNCHANGED <<sup, mainsocks, printed, serving, exit_code, in_test, pool_frame>>

\* start_worker, lines 398-409, one turn of the loop: pipeout.recv() returns
\* the oldest socket in the pipe
ChildRecv(i) ==
    /\ children[i].st = "parsed"
    /\ Len(children[i].got) < Len(children[i].listen)
    /\ children[i].pipe # <<>>
    /\ children' = [children EXCEPT ![i].got = Append(@, Head(children[i].pipe)),
                                    ![i].pipe = Tail(@)]
    /\ UNCHANGED <<sup, mainsocks, printed, serving, exit_code, in_test, pool_frame>>

\* start_worker, line 411: one server per entry of the child's State.listen
ChildStart(i) ==
    /\ children[i].st = "parsed"
    /\ Len(children[i].got) = Len(children[i].listen)
    /\ children' = [children EXCEPT ![i].st = "serving"]
    /\ UNCHANGED <<sup, mainsocks, printed, serving, exit_code, in_test, pool_frame>>

\* what px.ini, the environment and the command line say about listen,
\* gateway and hostonly
ListenGivens == {Absent, "192.168.1.7", "10.0.0.5, 127.0.0.1"}

\* main, lines 1040-1046: parse_config has returned, run_pool begins
InitPool ==
    /\ \E li \in ListenGivens, le \in ListenGivens, lc \in ListenGivens,
          gw \in {Absent, "1"}, ho \in {Absent, "1"} :
          /\ ini = [k \in Keys |-> IF k = "listen" THEN li
                                   ELSE IF k = "gateway" THEN gw ELSE Absent]
          /\ env = [k \in Keys |-> IF k = "listen" THEN le
                                   ELSE IF k = "hostonly" THEN ho ELSE Absent]
          /\ flags = [k \in Keys \cup {"debug"} |->
                         IF k = "listen" THEN lc ELSE Absent]
    /\ cpc = "done"
    /\ config = parse_config(<<>>).config
    /\ listen = parse_config(<<>>).listen
    /\ location = 0
    /\ socktimeout = "20.0"
    /\ saved = NoFile
    /\ allow = config["allow"]
    /\ hostonly = (config["hostonly"] = "1")
    /\ username = "" /\ auth = "ANY" /\ px_password = FALSE
    /\ \E pf \in Platforms : platform = pf[1] /\ start_method = pf[2]
    /\ workers \in 1..MaxWorkers
    /\ proxyreload = 60
    /\ state_lock = 0
    /\ wproxy = [mode |-> "MODE_CONFIG", servers |-> <<"a:1", "b:2">>, gen |-> 0,
                 prev |-> None]
    /\ proxy_last_reload = NoTime
    /\ ReloadIdle
    /\ sup = "bind"
    /\ mainsocks = <<>>
    /\ printed = FALSE
    /\ children = [i \in 1..MaxWorkers |-> NoChild]
    /\ serving = FALSE
    /\ exit_code = Alive
    /\ threads = Threads
    /\ query = NoQuery
    /\ in_test = FALSE
    /\ conn = [c \in Conns |-> NewConn]
    /\ queue = <<>>
    /\ h = [t \in Pool |-> NoHandler]

NextPool ==
    \/ Bind
    \/ Spawn
    \/ Send
    \/ StartHttpds
    \/ \E i \in DOMAIN children : ChildParse(i)
    \/ \E i \in DOMAIN children : ChildRecv(i)
    \/ \E i \in DOMAIN children : ChildStart(i)

SpecPool == InitPool /\ [][NextPool]_vars

\* ---- px --test (test, lines 662-695) ----

\* the configured settings:threads values the test run starts from: 1, and the
\* 32 of the defaults (line 828)
ThreadsGivens == {1, 32}

\* the status of a process ended by the interrupt signal
Killed == 0 - 2

\* the process still runs: it was neither interrupted nor left by main
Running == sup \notin {"killed", "exited"}

\* lines 685-687: the daemon thread that runs query is started
TestStart ==
    /\ sup = "test"
    /\ query' = [query EXCEPT !.pc = "started"]
    /\ sup' = "tweak"
    /\ UNCHANGED <<workers, threads, start_method, mainsocks, printed, children,
                   serving, exit_code, in_test>>
    /\ UNCHANGED <<cfg_state, resolver_vars, reload_vars, config_vars, server_vars>>

TestTweak_wrong ==
    /\ sup = "tweak"
    /\ threads' = 1
    /\ sup' = "bind"
    /\ UNCHANGED <<workers, query, start_method, mainsocks, printed, children,
                   serving, exit_code, in_test>>
    /\ UNCHANGED <<cfg_state, resolver_vars, reload_vars, config_vars, server_vars>>

\* lines 689-695: workers and threads are set to 1, then run_pool is called
TestTweak ==
    /\ sup = "tweak"
    /\ workers' = 1
    /\ threads' = 1
    /\ sup' = "bind"
    /\ UNCHANGED <<query, start_method, mainsocks, printed, children,
                   serving, exit_code, in_test>>
    /\ UNCHANGED <<cfg_state, resolver_vars, reload_vars, config_vars, server_vars>>

\* query, lines 668-676: the request goes to listen[0], whether or not the
\* supervisor has bound it by now; the result is only printed
Query ==
    /\ query.pc = "started"
    /\ Running
    /\ query' = [pc |-> "performed", early |-> (mainsocks = <<>>)]
    /\ UNCHANGED <<workers, threads, start_method, sup, mainsocks, printed, children,
                   serving, exit_code, in_test>>
    /\ UNCHANGED <<cfg_state, resolver_vars, reload_vars, config_vars, server_vars>>

\* query, lines 678-683: the interrupt signal goes to the thread's own process,
\* which ends with it
Signal ==
    /\ query.pc = "performed"
    /\ Running
    /\ query' = [query EXCEPT !.pc = "signalled"]
    /\ sup' = "killed"
    /\ serving' = FALSE
    /\ exit_code' = Killed
    /\ UNCHANGED <<workers, threads, start_method, mainsocks, printed, children, in_test>>
    /\ UNCHANGED <<cfg_state, resolver_vars, reload_vars, config_vars, server_vars>>

\* lines 1040-1046: main has returned; the interpreter exits and takes the
\* daemon thread (line 686) with it, wherever it stands
Exit ==
    /\ sup = "returned"
    /\ sup' = "exited"
    /\ query' = IF query.pc \in {"started", "performed"}
                THEN [query EXCEPT !.pc = "killed"] ELSE query
    /\ UNCHANGED <<workers, threads, start_method, mainsocks, printed, children,
                   serving, exit_code, in_test>>
    /\ UNCHANGED <<cfg_state, resolver_vars, reload_vars, config_vars, server_vars>>

\* parse_config has reached line 942 with --test given
InitTest ==
    /\ \E li \in ListenGivens, lc \in ListenGivens :
          /\ ini = [k \in Keys |-> IF k = "listen" THEN li ELSE Absent]
          /\ env = [k \in Keys |-> Absent]
          /\ flags = [k \in Keys \cup {"debug"} |->
                         IF k = "listen" THEN lc ELSE Absent]
    /\ cpc = "done"
    /\ config = parse_config(<<>>).config
    /\ listen = parse_config(<<>>).listen
    /\ location = 0
    /\ socktimeout = "20.0"
    /\ saved = NoFile
    /\ allow = config["allow"]
    /\ hostonly = (config["hostonly"] = "1")
    /\ username = "" /\ auth = "ANY" /\ px_password = FALSE
    /\ \E pf \in Platforms : platform = pf[1] /\ start_method = pf[2]
    /\ workers \in 1..MaxWorkers
    /\ threads \in ThreadsGivens
    /\ proxyreload = 60
    /\ state_lock = 0
    /\ wproxy = [mode |-> "MODE_CONFIG", servers |-> <<"a:1", "b:2">>, gen |-> 0,
                 prev |-> None]
    /\ proxy_last_reload = NoTime
    /\ ReloadIdle
    /\ sup = "test"
    /\ in_test = TRUE
    /\ query = NoQuery
    /\ mainsocks = <<>>
    /\ printed = FALSE
    /\ children = [i \in 1..MaxWorkers |-> NoChild]
    /\ serving = FALSE
    /\ exit_code = Alive
    /\ conn = [c \in Conns |-> NewConn]
    /\ queue = <<>>
    /\ h = [t \in Pool |-> NoHandler]

NextTest ==
    \/ TestStart
    \/ TestTweak
    \/ Bind
    \/ StartHttpds
    \/ Query
    \/ Signal
    \/ Exit

\* the main thread goes on to start the query thread (lines 685-687); the query
\* thread is scheduled, and mcurl's perform returns
SpecTest ==
    InitTest /\ [][NextTest]_vars
        /\ WF_vars(TestStart) /\ WF_vars(Query) /\ WF_vars(Signal)

\* ------------------------------------------------------------------- claims
Busy == Cardinality({t \in Pool : h[t].pc # "idle"})

Pos(ev, e) == IF InList(e, ev) THEN CHOOSE i \in 1..Len(ev) :
                      ev[i] = e /\ \A j \in 1..(i - 1) : ev[j] # e
              ELSE 0

Count(ev, e) == Cardinality({i \in 1..Len(ev) : ev[i] = e})

LocalIps == {"127.0.0.1"} \cup HostAddrs

Admissible(ip) == ip \in RuleIps(allow) \/ (hostonly /\ ip \in LocalIps)

\* C1: an accepted connection is admitted exactly when its client IP is in
\* State.allow, or State.hostonly is set and the IP is a local-interface
\* address; a client that is not admitted gets no pool task, is closed, and
\* no byte is written to it.
C1_Admission ==
    \A c \in Conns :
        /\ (conn[c].st # "new" /\ conn[c].ip # None)
              => (conn[c].admitted <=> Admissible(conn[c].ip))
        /\ (conn[c].st # "new" /\ ~conn[c].admitted)
              => /\ conn[c].st = "closed"
                 /\ conn[c].tasks = 0
                 /\ ~conn[c].wrote
                 /\ ~InList(c, queue)
                 /\ \A t \in Pool : h[t].conn # c

\* C1 witness: in host-only mode with an empty allow set, a local client is in
\* the pool while a remote client has been turned away.
C1_Witness ==
    /\ hostonly /\ RuleIps(allow) = {}
    /\ \E c, d \in Conns :
          /\ conn[c].st = "closed" /\ ~conn[c].admitted /\ conn[c].ip = "10.0.0.5"
          /\ conn[d].admitted /\ conn[d].ip = "192.168.1.7"

\* C2: two replacements of State.wproxy are at least proxyreload seconds
\* apart, however many threads call reload_proxy, and at most one thread is
\* between the age check and the update of proxy_last_reload.
C2_ReloadOnce ==
    /\ (prev_replace # NoTime /\ last_replace # NoTime)
          => last_replace - prev_replace >= proxyreload
    /\ Cardinality({r \in 1..Callers : rt[r] \in {"locked", "stamp"}}) <= 1
    /\ \A r \in 1..Callers : rt[r] \in {"locked", "stamp"} => state_lock = r

\* C2 witness: the resolver has been replaced twice, the second time as early
\* as the window allows, while another thread waits for the lock.
C2_Witness ==
    /\ prev_replace # NoTime /\ last_replace # NoTime
    /\ last_replace - prev_replace = proxyreload
    /\ \E r, q \in 1..Callers : rt[r] = "stamp" /\ rt[q] = "acquire"

\* C3: for a CONNECT request the status line 200, the Proxy-Agent header and
\* the blank line are written, in this order, after mcurl.do succeeded and
\* before mcurl.select moves a tunnel byte; when mcurl.do fails no 200 is
\* written, no splice starts, and one error response with the driver's code
\* is sent.
C3_ConnectOrder ==
    \A t \in Pool :
        h[t].command = "CONNECT" =>
            /\ (h[t].pc = "select" \/ Has(h[t], "select") \/ Has(h[t], "tunnel")
                    \/ Has(h[t], "200 Connection established"))
                 => /\ h[t].failed = {}
                    /\ 0 < Pos(h[t].ev, "do")
                    /\ Pos(h[t].ev, "do") < Pos(h[t].ev, "200 Connection established")
                    /\ Pos(h[t].ev, "200 Connection established")
                          < Pos(h[t].ev, "Proxy-Agent")
                    /\ Pos(h[t].ev, "Proxy-Agent") < Pos(h[t].ev, "end_headers")
                    /\ Has(h[t], "select")
                          => Pos(h[t].ev, "end_headers") < Pos(h[t].ev, "select")
                    /\ Has(h[t], "tunnel")
                          => Pos(h[t].ev, "select") < Pos(h[t].ev, "tunnel")
            /\ h[t].failed # {}
                 => /\ ~Has(h[t], "200 Connection established")
                    /\ ~Has(h[t], "select") /\ ~Has(h[t], "tunnel")
                    /\ h[t].pc # "select"
                    /\ Count(h[t].ev, "send_error") = 1
                    /\ h[t].status = h[t].resp

\* C3 witness: a CONNECT through the upstream whose tunnel has carried bytes.
C3_Witness ==
    \E t \in Pool :
        /\ h[t].command = "CONNECT" /\ h[t].ipport = None
        /\ Has(h[t], "tunnel")

\* C4: every request that entered do_curl has, when do_curl is over, had its
\* easy handle released (mcurl.remove, or mcurl.stop after a socket error).
C4_Released ==
    \A t \in Pool : (h[t].pc = "done" /\ h[t].entered) => h[t].released

\* The value the sources give an option: the CLI flag, else the PX_* variable,
\* else px.ini, else the default, read as its type reads it.
Winner(k) ==
    cfg_value(k, IF flags[k] # Absent THEN flags[k]
                 ELSE IF env[k] # Absent THEN env[k]
                 ELSE IF ini[k] # Absent THEN ini[k]
                 ELSE Default(k))

\* C5: after parse_config every option has the value of the highest source
\* that sets it, default < INI < PX_* < CLI.  (Left out, as overrides made on
\* purpose: allow under hostonly=1, lines 899-903, and log under --debug,
\* lines 743-744 and 810-811.)
C5_Precedence ==
    cpc = "done" =>
        \A k \in Keys :
            \/ k = "allow" /\ hostonly
            \/ k = "log" /\ flags["debug"] # Absent
            \/ config[k] = Winner(k)

\* C6: an error of the driver reaches the client only after every entry of
\* the resolver's list has been tried and has failed.
C6_Fallback ==
    \A t \in Pool :
        (h[t].ipport = None /\ h[t].status \in ErrCodes)
            => \A i \in 1..Len(h[t].proxy_servers) :
                   h[t].proxy_servers[i] \in h[t].failed

C9_Rejected ==
    \A t \in Pool :
        (h[t].entered /\ Has(h[t], "set_proxy") /\ ~h[t].proxy_ok)
            => /\ h[t].status = 401
               /\ h[t].pc = "done"
               /\ ~Has(h[t], "keyring") /\ ~Has(h[t], "PX_PASSWORD")
               /\ ~Has(h[t], "set_auth") /\ ~Has(h[t], "do")

\* C9 witness: a request answered 401.
C9_Witness == \E t \in Pool : h[t].status = 401 /\ Has(h[t], "set_proxy")

\* C10: on the upstream path with an empty username, the handler answers 501
\* and makes no upstream request when the platform is not win32, and installs
\* the principal ":" and goes on when it is.
C10_NoCredential ==
    \A t \in Pool :
        (h[t].entered /\ h[t].ipport = None /\ h[t].proxy_ok /\ username = "")
            => IF platform # "win32"
               THEN /\ h[t].status = 501 /\ h[t].pc = "done"
                    /\ ~Has(h[t], "set_auth") /\ ~Has(h[t], "do")
               ELSE /\ h[t].key = ":" /\ Has(h[t], "set_auth")
                    /\ Has(h[t], "set_headers")
                    /\ h[t].status # 501

\* C10 witness: a request answered 501.
C10_Witness == \E t \in Pool : h[t].status = 501 /\ username = "" /\ h[t].proxy_ok

\* C11: when a request other than CONNECT has completed without error, the
\* connection is marked for closing exactly when the client's request headers
\* or the upstream's relayed response headers carried "Connection: close";
\* otherwise the handler goes on to the next request.
C11_KeepAlive ==
    \A t \in Pool :
        (h[t].pc = "done" /\ h[t].command # "CONNECT" /\ Has(h[t], "response")
            /\ ~h[t].sockerr)
            => h[t].close_connection
                   = (h[t].client_close \/ h[t].upstream_close)

\* C12: the end of a CONNECT tunnel leaves close_connection set; the
\* socket.error handler sets close_connection, stops the connection's easy
\* handle once if there is one, none otherwise, and clears the handler's
\* reference; after it the connection serves no further request.
C12_SocketError ==
    [][\A t \in Pool :
          /\ Has(h'[t], "tunnel") => h'[t].close_connection
          /\ (h'[t].sockerr /\ ~h[t].sockerr)
                => /\ h'[t].close_connection
                   /\ h'[t].curl = None
                   /\ Count(h'[t].ev, "stop")
                          = Count(h[t].ev, "stop")
                              + (IF h[t].curl # None THEN 1 ELSE 0)
                   /\ Count(h'[t].ev, "stop") <= 1
          /\ h[t].sockerr => h'[t] \in {h[t], NoHandler}]_vars

\* C12 witness: a socket error stopped the handle of a request in flight, and
\* the handler no longer refers to it.
C12_Witness ==
    \E t \in Pool :
        /\ h[t].sockerr /\ h[t].entered /\ h[t].close_connection
        /\ Has(h[t], "stop") /\ h[t].curl = None

\* C13: a request refreshes the resolver in PAC_SYSTEM mode only: while the
\* resolver is DIRECT_ONLY (MODE_NONE), STATIC (MODE_CONFIG) or PAC_STATIC
\* (MODE_CONFIG_PAC) no step replaces State.wproxy, and proxy_last_reload
\* changes only after the replacement of a PAC_SYSTEM resolver.
C13_PacSystemOnly ==
    [][/\ wproxy.mode \in {"MODE_NONE", "MODE_CONFIG", "MODE_CONFIG_PAC"}
            => wproxy' = wproxy
       /\ proxy_last_reload' # proxy_last_reload
            => wproxy.prev = "MODE_PAC"]_vars

\* C13, amended: a request refreshes the resolver in every mode but the two
\* configured in Px: under MODE_CONFIG and MODE_CONFIG_PAC no step replaces
\* State.wproxy or changes proxy_last_reload; under a resolver found in the
\* system settings, DIRECT_ONLY included, the caller that holds the lock
\* replaces it exactly when now - proxy_last_reload >= proxyreload.
C13_Refresh ==
    [][/\ wproxy.mode \in {"MODE_CONFIG", "MODE_CONFIG_PAC"}
            => wproxy' = wproxy /\ proxy_last_reload' = proxy_last_reload
       /\ wproxy.mode \in SystemModes => proxy_last_reload # NoTime
       /\ \A r \in 1..Callers :
             (rt[r] = "locked" /\ rt'[r] # "locked")
                => ((wproxy' # wproxy)
                       <=> (now - proxy_last_reload >= proxyreload))
       /\ wproxy' # wproxy
            => \E r \in 1..Callers : rt[r] = "locked" /\ rt'[r] = "stamp"
       /\ proxy_last_reload' # proxy_last_reload
            => wproxy.prev \in SystemModes /\ proxy_last_reload' = now]_vars

\* C13 witness: a DIRECT_ONLY resolver found in the system settings has been
\* replaced by a request, and the reload time recorded.
C13_Witness ==
    /\ wproxy.prev = "MODE_NONE"
    /\ last_replace # NoTime /\ proxy_last_reload = last_replace

\* C14: when binding a listen address fails, the failure is printed, no child
\* process is started, no serve loop runs on any address, and the process
\* ends with a non-zero exit code.
C14_BindFailure ==
    sup = "returned"
        => /\ printed
           /\ Started = {}
           /\ ~serving
           /\ exit_code # Alive /\ exit_code # 0

\* the children run_pool is to start: workers - 1 where sockets can be shared
Expected ==
    IF platform = "darwin" THEN 0
    ELSE IF platform \in {"linux", "win32"} THEN workers - 1
    ELSE 0

\* C15: every listen address is bound before a child is started; the children
\* number workers - 1 on linux and win32 and none on darwin; the supervisor
\* runs its serve loops only once all of them are started and each has been
\* sent every socket.
C15_Supervisor ==
    /\ Started # {} => mainsocks = listen
    /\ Cardinality(Started) <= Expected
    /\ sup \in {"start", "serving"}
          => /\ mainsocks = listen
             /\ Cardinality(Started) = Expected
             /\ \A i \in Started :
                   Len(children[i].pipe) + Len(children[i].got) = Len(mainsocks)
    /\ serving => sup = "serving"

\* C15 witness: the supervisor of a two-worker win32 deployment serves, its one
\* child started after two addresses were bound.
C15_Witness ==
    /\ serving /\ platform = "win32" /\ workers = 2
    /\ Cardinality(Started) = 1 /\ Len(mainsocks) = 2

\* C16: each child is sent the sockets of mainsocks, one per listen address
\* and in that order; its own parse_config gives it as many listen entries as
\* the supervisor bound, so a child that waits on an empty pipe is one the
\* supervisor is still sending to, and a child that serves has received every
\* socket and left none in the pipe.
C16_HandOff ==
    \A i \in Started :
        LET c == children[i]
            n == Len(c.got) + Len(c.pipe)
        IN  /\ n <= Len(mainsocks)
            /\ c.got \o c.pipe = SubSeq(mainsocks, 1, n)
            /\ c.st \in {"parsed", "serving"} => c.listen = listen
            /\ (c.st = "parsed" /\ Len(c.got) < Len(c.listen) /\ c.pipe = <<>>)
                  => sup = "send" /\ i = Cardinality(Started)
            /\ (sup \in {"start", "serving"} /\ c.st # "started")
                  => n = Len(c.listen)
            /\ c.st = "serving" => c.got = mainsocks /\ c.pipe = <<>>

\* C16 witness: a forked child serves on the two sockets it received while
\* the supervisor has not yet started its own serve loops.
C16_Witness ==
    \E i \in Started :
        /\ children[i].st = "serving" /\ start_method = "fork"
        /\ Len(children[i].got) = 2 /\ ~serving

\* C17: with hostonly=1 parse_config sets State.hostonly and listens on every
\* interface; the allow rules are emptied when gateway=0, or when gateway=1
\* and allow is one of the defaults, and with gateway=1 and rules of its own
\* the configured allow is kept.
C17_HostOnly ==
    (cpc = "done" /\ config["hostonly"] = "1")
        => /\ hostonly
           /\ listen = <<"">>
           /\ IF config["gateway"] = "0"
                 \/ (config["gateway"] = "1"
                       /\ Winner("allow") \in {"*.*.*.*", "0.0.0.0/0"})
              THEN allow = "" /\ config["allow"] = ""
              ELSE /\ config["gateway"] = "1"
                   /\ allow = Winner("allow") /\ config["allow"] = Winner("allow")

\* C17 witness: gateway=1 and hostonly=1 with the default allow, all emptied.
C17_Witness ==
    /\ cpc = "done" /\ config["hostonly"] = "1" /\ config["gateway"] = "1"
    /\ Winner("allow") = "0.0.0.0/0"
    /\ allow = "" /\ listen = <<"">> /\ hostonly

\* C18: an int or float option whose px.ini value does not parse, and which no
\* other source sets, has its built-in default in State.config, and so has
\* the field its setter fills.
C18_KeepsDefault ==
    cpc = "done" =>
        \A k \in IntKeys \cup FloatKeys :
            (ini[k] = "abc" /\ env[k] = Absent /\ flags[k] = Absent)
                => /\ config[k] = Default(k)
                   /\ k = "socktimeout" => socktimeout = Default(k)

\* C19: settings:log given in px.ini, with no --debug and no log from the
\* environment or the command line, is the sink in effect after parse_config:
\* State.location and settings:log of State.config are the INI value.
C19_IniLog ==
    (/\ cpc = "done" /\ saved = NoFile
     /\ ini["log"] # Absent /\ env["log"] = Absent
     /\ flags["log"] = Absent /\ flags["debug"] = Absent)
        => /\ location = LogNumber(ini["log"])
           /\ config["log"] = IntStr(ini["log"])

\* C20: with no overrides from the command line or the environment, the file
\* that --save wrote, parsed by the next run, gives a State.config equal to
\* that file entry for entry: a second save writes what the first wrote.
C20_SaveIdempotent ==
    (cpc = "done" /\ saved # NoFile) => config = saved

\* C20 witness: the second parse is over for a px.ini whose first save was
\* not a copy of it (port and socktimeout rewritten, allow emptied).
C20_Witness ==
    /\ cpc = "done" /\ saved # NoFile
    /\ ini["port"] = "0080" /\ saved["port"] = "80"
    /\ ini["socktimeout"] = "5" /\ saved["socktimeout"] = "5.0"
    /\ ini["hostonly"] = "1" /\ saved["allow"] = ""

\* C21: a request the resolver routes DIRECT gets no upstream proxy, no
\* credential lookup (PX_PASSWORD or keyring) and no authentication, so it is
\* never answered 401 or 501, whatever the username and the platform; when it
\* is not a CONNECT it is bridged, and transfer decoding is turned off before
\* the transfer runs.
C21_Direct ==
    \A t \in Pool :
        (h[t].entered /\ h[t].route = DIRECT)
            => /\ ~Has(h[t], "set_proxy")
               /\ ~Has(h[t], "PX_PASSWORD") /\ ~Has(h[t], "keyring")
               /\ ~Has(h[t], "set_auth") /\ h[t].key = ""
               /\ h[t].status \notin {401, 501}
               /\ Has(h[t], "set_transfer_decoding False")
               /\ h[t].command # "CONNECT" => Has(h[t], "bridge")
               /\ Has(h[t], "do")
                     => /\ Pos(h[t].ev, "set_transfer_decoding False")
                              < Pos(h[t].ev, "do")
                        /\ h[t].command # "CONNECT"
                              => Pos(h[t].ev, "bridge") < Pos(h[t].ev, "do")

\* C21 witness: with no username on linux, where the upstream path answers
\* 501, a DIRECT GET has been bridged to the end.
C21_Witness ==
    /\ username = "" /\ platform = "linux"
    /\ \E t \in Pool :
          /\ h[t].route = DIRECT /\ h[t].command = "GET"
          /\ Has(h[t], "response") /\ h[t].pc = "done" /\ h[t].status = 0

\* C22: within one request the mode check of reload_proxy, the list from
\* find_proxy_for_url and the noproxy hosts given to set_proxy come from one
\* resolver snapshot, whatever other threads replace meanwhile.  (A request
\* that replaces the resolver itself reads the mode of the one it replaces.)
C22_Snapshot ==
    [][\A r \in 1..Callers :
          /\ (rt[r] = "noproxy" /\ rt'[r] = "out")
                => seen[r].list = wproxy.gen
          /\ (rt[r] = "find" /\ rt'[r] = "noproxy" /\ ~seen[r].own)
                => seen[r].mode = wproxy.gen]_vars

\* C23: without gateway and hostonly, State.listen after parse_config is the
\* list of the highest source that sets listen (command line, else
\* environment, else px.ini, else the default 127.0.0.1) and nothing more.
C23_ListenWinner ==
    (/\ cpc = "done" /\ saved = NoFile
     /\ config["gateway"] # "1" /\ config["hostonly"] # "1")
        => listen = ListenParts(Winner("listen"))

Handling == {c \in Conns : conn[c].st = "handling"}

\* C24: at most `threads` connections are being handled at a time, each by
\* one handler and in one task; a connection given to the pool waits in its
\* queue once and leaves it only to be handled; and no connection stays in
\* the queue while a pool thread stays free: again and again the queue is
\* empty or every thread is busy.
C24_Pool ==
    /\ [](/\ Cardinality(Handling) <= Threads
          /\ \A c \in Conns :
                /\ conn[c].tasks <= 1
                /\ conn[c].st = "handling"
                      <=> Cardinality({t \in Pool :
                              h[t].pc # "idle" /\ h[t].conn = c}) = 1
                /\ conn[c].st = "queued"
                      <=> Cardinality({i \in 1..Len(queue) : queue[i] = c}) = 1
                /\ conn[c].st = "queued" => conn[c].tasks = 0)
    /\ [][\A c \in Conns :
             conn[c].st = "queued" => conn'[c].st \in {"queued", "handling"}]_vars
    /\ []<>(queue = <<>> \/ \A t \in Pool : h[t].pc # "idle")

\* C24 witness: a connection that waited in the queue is being handled, in
\* its one task, after the connection accepted before it was closed.
C24_Witness ==
    \E c, d \in Conns :
        /\ d < c
        /\ conn[d].st = "closed" /\ conn[d].tasks = 1
        /\ conn[c].st = "handling" /\ conn[c].tasks = 1
        /\ Cardinality(Handling) = Threads

\* C25, as stated: in --test mode workers and threads are 1 from the call of
\* run_pool on, the query thread is started before anything is bound, and in
\* every interleaving the query thread ends by sending the interrupt signal:
\* it is never ended without having sent it.
C25_TestRace ==
    /\ sup \in {"bind", "start", "serving", "returned", "exited"}
             => workers = 1 /\ threads = 1
    /\ mainsocks # <<>> => query.pc # "none"
    /\ query.pc # "killed"

\* C25, amended: workers and threads are 1 from the call of run_pool on and no
\* child is started; the query thread is started before anything is bound, and
\* nothing orders its request after the bind; the thread ends by sending the
\* interrupt signal, which ends the process, in every interleaving but the one
\* in which a failed bind has been printed and main has returned first, where
\* the daemon thread ends with the process without sending it.
C25_Test ==
    /\ [](/\ sup \in {"bind", "start", "serving", "returned", "exited"}
             => workers = 1 /\ threads = 1
          /\ Started = {}
          /\ mainsocks # <<>> => query.pc # "none"
          /\ query.early => query.pc # "started"
          /\ query.pc = "signalled" <=> sup = "killed"
          /\ query.pc = "killed" <=> sup = "exited"
          /\ sup \in {"returned", "exited"} => printed /\ ~in_test /\ ~serving
          /\ serving => query.pc \in {"started", "performed"})
    /\ <>(query.pc \in {"signalled", "killed"})

\* the request was sent before listen[0] was bound, and the server came up
\* afterwards, with the interrupt still to come
C25_Witness ==
    /\ query.pc = "performed"
    /\ query.early
    /\ serving
    /\ workers = 1 /\ threads = 1


====
